---- MODULE Spec2Model ----
(***************************************************************************)
(* Model of the trade-stream supervisor of contract_backend:               *)
(*   - TradeStreamManager (src/src/utils/trade_stream_util.ts): the feed   *)
(*     client and the per-trade contract logic;                            *)
(*   - StreamManagerService (src/unnamed/part_006): the registry of        *)
(*     active streams, start with retries, stop;                           *)
(*   - ContractService.markContractCompleted (contract_service.ts).        *)
(* Every `await` of the code is a point where another handler may run; a   *)
(* step of the model is the synchronous code between two awaits, together  *)
(* with the database operation the first await was waiting for.            *)
(***************************************************************************)
EXTENDS Integers, FiniteSets, Sequences, TLC

\* ------------------------------------------------------------------ bounds
MaxHandlers == 2       \* trade handlers in flight at the same time
MaxSockets == 2        \* WebSocket objects alive at the same time
MaxTimers == 1         \* pending reconnect timers
MaxTime == 2           \* the clock runs 0..MaxTime
MaxMarketCap == 2      \* marketCapSol of a trade, 1..MaxMarketCap
MaxBalance == 2        \* newTokenBalance of a trade, 1..MaxBalance
MaxPrice == 2          \* SOL price, 1..MaxPrice
MaxWrites == 2         \* the count of completion writes saturates here
MaxSigns == 2          \* sign requests
MaxCalls == 2          \* processContractEvent calls

\* ------------------------------------------------------- program constants
InProgress == 0
CompletedCondition1 == 1
CompletedCondition2 == 2
Broken == 3
maxReconnectAttempts == 5
reconnectDelay == 1000       \* ms
maxRetries == 5

\* ------------------------------------------------------------ the database
Contracts == {1, 2}
Users == {"A", "B"}
Traders == Users \cup {"X"}
Mints == {"M1", "M2"}
NoRow == 9             \* no user_contract row for (contract, user)

\* condition1 (USD) and condition2 (deadline) of the contract rows
Condition1Of(c) == 4
Condition2Of(c) == 1
\* supply of the user_contract rows
SupplyOf(c, u) == 2

Handlers == 1..MaxHandlers
SockIds == 1..MaxSockets
Prices == 1..MaxPrice
MarketCaps == 1..MaxMarketCap
SignIds == 1..MaxSigns
Balances == 1..MaxBalance

VARIABLES
    now,               \* wall clock (new Date())
    contractRows,      \* ids of the rows of table contract
    contractMint,      \* contract.mint of each contract row
    is_completed,      \* contract.is_completed of each contract row
    completion_reason, \* contract.completion_reason of each contract row
    completed_at,      \* contract.completed_at of each contract row
    status,            \* user_contract.status, or NoRow
    completionWrites,  \* number of is_completed writes issued per contract
    deadlineFired,     \* contracts whose deadline check fired at event ingress
    activeStreams,     \* StreamManagerService.activeStreams (key set)
    start,             \* startStreamForContract invocation per contract
    ext,               \* external markContractCompleted command per contract
    streamConfigs,     \* TradeStreamManager.streamConfigs: mint -> StreamConfig
    subscriptions,     \* TradeStreamManager.subscriptions
    ws,                \* TradeStreamManager.ws (0 is null)
    isConnecting,      \* TradeStreamManager.isConnecting
    socks,             \* readyState of each WebSocket object
    upSubs,            \* mints subscribed upstream on each socket
    reconnectAttempts, \* TradeStreamManager.reconnectAttempts
    reconnectTimers,   \* pending setTimeout(connect) of attemptReconnect
    timerDelay,        \* delay (ms) of the pending reconnect timer, 0 if none
    handlers,          \* handleTradeMessage invocations in flight
    signs,             \* signContract invocations (sign requests)
    userScores,        \* ContractScoringService.userScores (raw totals)
    lastResult,        \* the ScoreCalculationResult returned last, with the
                       \* event it was computed from and the clock it read
    scoreCalls,        \* number of processContractEvent calls per userId
    lastNoop           \* history: the last operation that returned without
                       \* changing the program's state (a dropped frame, a
                       \* stop that found no registry entry)

metaVars == <<completion_reason, completed_at>>
dbVars == <<contractRows, contractMint, metaVars, is_completed, status,
            completionWrites, deadlineFired>>
supVars == <<activeStreams, start, ext>>
clientVars == <<streamConfigs, subscriptions, handlers>>
sockVars == <<ws, isConnecting, socks, upSubs, reconnectAttempts, reconnectTimers,
              timerDelay>>
svcVars == <<signs, userScores, lastResult, scoreCalls>>
vars == <<now, lastNoop, svcVars, dbVars, supVars, clientVars, sockVars>>

\* ----------------------------------------------------------------- values
\* no entry in streamConfigs
NoCfg == [contractId |-> 0, signers |-> {}, condition1 |-> 0,
          condition2 |-> 0, allTimeHigh |-> 0]

\* A handler holds a reference to the StreamConfig it found in the map.  While
\* that object is still the map's entry (attached) the handler reads its
\* allTimeHigh there; when the entry is deleted or replaced the object is not
\* written any more and the handler keeps its last allTimeHigh (ath).
\* at is history: the clock when getSolPrice returned.
IdleHandler == [pc |-> "idle", c |-> 0, attached |-> FALSE, ath |-> 0,
                trader |-> "-", cap |-> 0, bal |-> 0, price |-> 0, todo |-> {},
                at |-> 0]

IdleStart == [pc |-> "idle", retry |-> 0, sock |-> 0]

\* a signContract invocation that has not been called
IdleSign == [pc |-> "idle", c |-> 0, u |-> "-"]

\* an absent signed_at
NoDate == -1

NoEvent == [userId |-> "-", contractRespected |-> TRUE, buyAmount |-> 0,
            diffWithCondition |-> 0, trueCondition |-> 1, signed_at |-> NoDate]

\* no ScoreCalculationResult returned yet
NoResult == [userId |-> "-", previousScore |-> 0, scoreChange |-> 0,
             condition2Applied |-> FALSE, event |-> NoEvent, at |-> 0]

NoNoop == [op |-> "none", c |-> 0, trader |-> "-", cap |-> 0, bal |-> 0]

Min(S) == CHOOSE x \in S : \A y \in S : x <= y

\* ---------------------------------------------------------- pure functions
\* checkCondition2: currentTime >= config.condition2
checkCondition2(t, condition2) == t >= condition2

\* the ATH update of processTradeWithContractLogic
NewATHUnguarded(ath, marketCapSol) == marketCapSol
NewATH(ath, marketCapSol) == IF marketCapSol > ath THEN marketCapSol ELSE ath

\* the condition1 check: athMarketCapUSD >= config.condition1
Condition1MetStrict(ath, solPrice, condition1) == ath * solPrice > condition1
Condition1Met(ath, solPrice, condition1) == ath * solPrice >= condition1

\* the break check: trade.newTokenBalance < userContract.supply
BalanceNotAboveSupply(newTokenBalance, supply) == newTokenBalance <= supply
BalanceBelowSupply(newTokenBalance, supply) == newTokenBalance < supply

\* checkAllUsersFailed: no user_contract of the contract is InProgress
checkAnyUserFailed(st, c) == \E u \in Users : st[c][u] = Broken
checkAllUsersFailed(st, c) == \A u \in Users : st[c][u] # InProgress

\* shouldProcessTrade: the signer filter
shouldProcessTrade(trader, signers) ==
    IF signers # {} THEN trader \in signers ELSE TRUE

\* UserContractService.updateUserContractStatus: set the status of one row
updateUserContractStatus(st, c, u, s) == [st EXCEPT ![c][u] = s]

\* the StreamConfig object built by startTradeStream
NewConfigSwappedArgs(signers, condition1, condition2, c) ==
    [contractId |-> condition1, signers |-> signers, condition1 |-> c,
     condition2 |-> condition2, allTimeHigh |-> 0]
NewConfigCachedATH(signers, condition1, condition2, c) ==
    [contractId |-> c, signers |-> signers, condition1 |-> condition1,
     condition2 |-> condition2,
     allTimeHigh |-> streamConfigs[contractMint[c]].allTimeHigh]
NewConfig(signers, condition1, condition2, c) ==
    [contractId |-> c, signers |-> signers, condition1 |-> condition1,
     condition2 |-> condition2, allTimeHigh |-> 0]

\* ws.close() on a socket in state s
CloseCalled(s) == IF s \in {"open", "connecting"} THEN "closing" ELSE s

\* rows of a contract that have the given status
RowsWith(st, c, s) == {u \in Users : st[c][u] = s}
\* getUserContractsByContractId(c).map(uc => uc.user_address)
SignersOfAnyContract(st, c) == {u \in Users : \E d \in Contracts : st[d][u] # NoRow}
SignersOf(st, c) == {u \in Users : st[c][u] # NoRow}

FreeSocks == {s \in SockIds : socks[s] = "none"}

\* a backoff that doubles from the first attempt on
delayFromTwo(attempts) == reconnectDelay * 2 ^ attempts

\* attemptReconnect: the delay of the timer, with reconnectAttempts already
\* incremented
delay(attempts) == reconnectDelay * 2 ^ (attempts - 1)
wsOpen == ws # 0 /\ socks[ws] = "open"

\* the handlers lose the config objects of the mints in M, which leave the map
Detach(hs, M) ==
    [h \in Handlers |->
        IF hs[h].attached /\ contractMint[hs[h].c] \in M
        THEN [hs[h] EXCEPT !.attached = FALSE,
                           !.ath = streamConfigs[contractMint[hs[h].c]].allTimeHigh]
        ELSE hs[h]]

\* config.allTimeHigh as handler h reads it
AthOf(h) == IF handlers[h].attached
            THEN streamConfigs[contractMint[handlers[h].c]].allTimeHigh
            ELSE handlers[h].ath

\* --------------------------------------------------------------------- Init
InitRest ==
    /\ now = 0
    /\ lastNoop = NoNoop
    /\ signs = [r \in SignIds |-> IdleSign]
    /\ userScores = [u \in Users |-> 0]
    /\ lastResult = NoResult
    /\ scoreCalls = [u \in Users |-> 0]
    /\ is_completed = [c \in Contracts |-> FALSE]
    /\ completion_reason = [c \in Contracts |-> "unset"]
    /\ completed_at = [c \in Contracts |-> NoDate]
    /\ completionWrites = [c \in Contracts |-> 0]
    /\ deadlineFired = {}
    /\ activeStreams = {}
    /\ start = [c \in Contracts |-> IdleStart]
    /\ ext = [c \in Contracts |-> "idle"]
    /\ streamConfigs = [m \in Mints |-> NoCfg]
    /\ subscriptions = {}
    /\ ws = 0
    /\ isConnecting = FALSE
    /\ socks = [s \in SockIds |-> "none"]
    /\ upSubs = [s \in SockIds |-> {}]
    /\ reconnectAttempts = 0
    /\ reconnectTimers = 0
    /\ timerDelay = 0
    /\ handlers = [h \in Handlers |-> IdleHandler]

\* contract 1 is signed by A and B, contract 2 by A
InitState ==
    /\ InitRest
    /\ status = [c \in Contracts |-> [u \in Users |->
                    IF c = 2 /\ u = "B" THEN NoRow ELSE InProgress]]

\* one contract in the database
Init ==
    /\ InitState
    /\ contractRows = {1}
    /\ contractMint = [c \in Contracts |-> "M1"]

\* two contracts in the database, with the same mint or with different mints
InitTwo ==
    /\ InitState
    /\ contractRows = Contracts
    /\ contractMint \in {[c \in Contracts |-> "M1"],
                         [c \in Contracts |-> IF c = 1 THEN "M1" ELSE "M2"]}

\* ------------------------------------------------- fragments used by actions
\* TradeStreamManager.stopTradeStream(mintAddress)
stopTradeStream(m) ==
    /\ streamConfigs' = [streamConfigs EXCEPT ![m] = NoCfg]
    /\ subscriptions' = subscriptions \ {m}
    /\ socks' = IF subscriptions \ {m} = {} /\ ws # 0
                THEN [socks EXCEPT ![ws] = CloseCalled(@)]
                ELSE socks

\* a stop that removes the registry entry only
stopStreamRegistryOnly(c) ==
    /\ activeStreams' = activeStreams \ {c}
    /\ UNCHANGED <<streamConfigs, subscriptions, socks>>

\* StreamManagerService.stopStreamForContract(contractId)
stopStreamForContract(c) ==
    IF c \in activeStreams
    THEN /\ stopTradeStream(contractMint[c])
         /\ activeStreams' = activeStreams \ {c}
    ELSE UNCHANGED <<streamConfigs, subscriptions, socks, activeStreams>>

\* the mints whose map entry stopStreamForContract(c) deletes
StoppedMints(c) == IF c \in activeStreams THEN {contractMint[c]} ELSE {}

\* the catch block of startStreamForContract: retry with backoff
RetryOrGiveUp(st) ==
    IF st.retry < maxRetries
    THEN [pc |-> "retry_wait", retry |-> st.retry + 1, sock |-> 0]
    ELSE IdleStart

CountWrite(c) ==
    completionWrites' = [completionWrites EXCEPT ![c] =
                            IF @ < MaxWrites THEN @ + 1 ELSE @]

\* ------------------------------------------------------------------ clock
Tick ==
    /\ now < MaxTime
    /\ now' = now + 1
    /\ UNCHANGED <<lastNoop, svcVars, dbVars, supVars, clientVars, sockVars>>

\* ------------------------------------------- StreamManagerService: start
\* startStreamForContract(contractId) is invoked (operator, auto-start,
\* restart, startStreamsForAllActiveContracts)
StartStream(c) ==
    /\ start[c].pc = "idle"
    /\ start' = [start EXCEPT ![c] = [pc |-> "get_contract", retry |-> 0, sock |-> 0]]
    /\ UNCHANGED <<now, lastNoop, svcVars, dbVars, activeStreams, ext, clientVars, sockVars>>

\* ContractService.getPendingContracts: the rows with is_completed = false
FirstPendingContract ==
    {c \in contractRows : ~is_completed[c] /\ \A d \in contractRows : c <= d}
getPendingContracts == {c \in contractRows : ~is_completed[c]}

\* startStreamsForAllActiveContracts: one timer (100 ms * id) per pending
\* contract; a contract whose start is in flight keeps that invocation
StartAll ==
    /\ \E c \in getPendingContracts : start[c].pc = "idle"
    /\ start' = [c \in Contracts |->
                    IF c \in getPendingContracts /\ start[c].pc = "idle"
                    THEN [pc |-> "scheduled", retry |-> 0, sock |-> 0]
                    ELSE start[c]]
    /\ UNCHANGED <<now, lastNoop, svcVars, dbVars, activeStreams, ext, clientVars,
                   sockVars>>

\* the timer of startStreamsForAllActiveContracts fired:
\* startStreamForContract(contract.id)
StartAllTimer(c) ==
    /\ start[c].pc = "scheduled"
    /\ start' = [start EXCEPT ![c] = [@ EXCEPT !.pc = "get_contract"]]
    /\ UNCHANGED <<now, lastNoop, svcVars, dbVars, activeStreams, ext, clientVars,
                   sockVars>>

\* getContractById returned: refuse a missing or completed contract
StartGetContract(c) ==
    /\ start[c].pc = "get_contract"
    /\ start' = [start EXCEPT ![c] =
                    IF c \notin contractRows \/ is_completed[c] THEN IdleStart
                    ELSE [@ EXCEPT !.pc = "get_ucs"]]
    /\ UNCHANGED <<now, lastNoop, svcVars, dbVars, activeStreams, ext, clientVars, sockVars>>

\* a persistence call of startStreamForContract threw
StartFail(c) ==
    /\ start[c].pc \in {"get_contract", "get_ucs"}
    /\ start' = [start EXCEPT ![c] = RetryOrGiveUp(@)]
    /\ UNCHANGED <<now, lastNoop, svcVars, dbVars, activeStreams, ext, clientVars, sockVars>>

\* the retry timer of startStreamForContract fired
RetryTimer(c) ==
    /\ start[c].pc = "retry_wait"
    /\ start' = [start EXCEPT ![c] = [@ EXCEPT !.pc = "get_contract"]]
    /\ UNCHANGED <<now, lastNoop, svcVars, dbVars, activeStreams, ext, clientVars, sockVars>>

\* getUserContractsByContractId returned: refuse without signers or after the
\* deadline, else start_trades_stream -> startTradeStream -> connect
StartTradeStream(c) ==
    /\ start[c].pc = "get_ucs"
    /\ LET signers == SignersOf(status, c)
           m == contractMint[c]
       IN IF signers = {} \/ now >= Condition2Of(c)
          THEN /\ start' = [start EXCEPT ![c] = IdleStart]
               /\ UNCHANGED <<activeStreams, clientVars, sockVars>>
          ELSE /\ streamConfigs' = [streamConfigs EXCEPT ![m] =
                      NewConfig(signers, Condition1Of(c), Condition2Of(c), c)]
               /\ subscriptions' = subscriptions \cup {m}
               /\ handlers' = Detach(handlers, {m})
               /\ IF isConnecting \/ wsOpen
                  THEN \* connect() returns at once
                       /\ activeStreams' = activeStreams \cup {c}
                       /\ start' = [start EXCEPT ![c] = IdleStart]
                       /\ UNCHANGED sockVars
                  ELSE \* connect() creates a WebSocket and waits for it
                       /\ FreeSocks # {}
                       /\ LET s == Min(FreeSocks)
                          IN /\ ws' = s
                             /\ socks' = [socks EXCEPT ![s] = "connecting"]
                             /\ start' = [start EXCEPT ![c] =
                                    [@ EXCEPT !.pc = "connect_wait", !.sock = s]]
                       /\ isConnecting' = TRUE
                       /\ UNCHANGED <<activeStreams, upSubs, reconnectAttempts,
                                      reconnectTimers, timerDelay>>
    /\ UNCHANGED <<now, lastNoop, svcVars, dbVars, ext>>

\* -------------------------------------------- StreamManagerService: stop
StopStream(c) ==
    /\ c \in activeStreams
    /\ stopStreamForContract(c)
    /\ handlers' = Detach(handlers, StoppedMints(c))
    /\ UNCHANGED <<now, lastNoop, svcVars, dbVars, start, ext, ws, isConnecting, upSubs,
                   reconnectAttempts, reconnectTimers, timerDelay>>

\* stopStreamForContract found no registry entry: it returns false
StopNoop(c) ==
    /\ c \notin activeStreams
    /\ lastNoop' = [NoNoop EXCEPT !.op = "stop", !.c = c]
    /\ UNCHANGED <<now, svcVars, dbVars, supVars, clientVars, sockVars>>

\* StreamManagerService.stopAllStreams: stopStreamForContract for every key of
\* the registry, in one turn of the event loop (stopStreamForContract awaits
\* nothing); ws.close() is called by the iteration that empties subscriptions
StopAll ==
    LET mints == {contractMint[c] : c \in activeStreams}
    IN /\ activeStreams' = {}
       /\ streamConfigs' = [m \in Mints |->
                               IF m \in mints THEN NoCfg ELSE streamConfigs[m]]
       /\ subscriptions' = subscriptions \ mints
       /\ socks' = IF activeStreams # {} /\ subscriptions \ mints = {} /\ ws # 0
                   THEN [socks EXCEPT ![ws] = CloseCalled(@)]
                   ELSE socks
       /\ handlers' = Detach(handlers, mints)
       /\ lastNoop' = IF activeStreams = {}
                      THEN [NoNoop EXCEPT !.op = "stop_all"]
                      ELSE lastNoop
       /\ UNCHANGED <<now, svcVars, dbVars, start, ext, ws, isConnecting,
                      upSubs, reconnectAttempts, reconnectTimers, timerDelay>>

\* ------------------------------------------------- WebSocket event handlers
\* ws.on('open')
Open(s) ==
    /\ socks[s] = "connecting"
    /\ socks' = [socks EXCEPT ![s] = "open"]
    /\ isConnecting' = FALSE
    /\ reconnectAttempts' = 0
    /\ upSubs' = IF ws # 0 /\ socks'[ws] = "open"
                 THEN [upSubs EXCEPT ![ws] = @ \cup subscriptions]
                 ELSE upSubs
    /\ LET waiting == {c \in Contracts :
                          start[c].pc = "connect_wait" /\ start[c].sock = s}
       IN /\ activeStreams' = activeStreams \cup waiting
          /\ start' = [c \in Contracts |->
                          IF c \in waiting THEN IdleStart ELSE start[c]]
    /\ UNCHANGED <<now, lastNoop, svcVars, dbVars, ext, clientVars, ws, reconnectTimers, timerDelay>>

\* ws.on('error') (when the handshake had not completed) and ws.on('close'),
\* which the socket emits together: onDisconnect callbacks, attemptReconnect,
\* then the rejected connect() promise resumes startTradeStream's catch block
\* and startStreamForContract's retry
closeEvents(s) ==
    /\ socks' = [socks EXCEPT ![s] = "none"]
    /\ upSubs' = [upSubs EXCEPT ![s] = {}]
    /\ isConnecting' = FALSE
    /\ ws' = 0
    /\ activeStreams' = activeStreams \
           {streamConfigs[m].contractId : m \in Mints}
    /\ IF subscriptions # {} /\ reconnectAttempts < maxReconnectAttempts
       THEN /\ reconnectTimers < MaxTimers
            /\ reconnectAttempts' = reconnectAttempts + 1
            /\ reconnectTimers' = reconnectTimers + 1
            /\ timerDelay' = delay(reconnectAttempts')
       ELSE UNCHANGED <<reconnectAttempts, reconnectTimers, timerDelay>>
    /\ LET waiting == {c \in Contracts :
                          start[c].pc = "connect_wait" /\ start[c].sock = s}
           gone == {contractMint[c] : c \in waiting}
       IN /\ streamConfigs' = [m \in Mints |->
                                  IF m \in gone THEN NoCfg ELSE streamConfigs[m]]
          /\ subscriptions' = subscriptions \ gone
          /\ handlers' = Detach(handlers, gone)
          /\ start' = [c \in Contracts |->
                          IF c \in waiting THEN RetryOrGiveUp(start[c])
                          ELSE start[c]]
    /\ UNCHANGED <<now, lastNoop, svcVars, dbVars, ext>>

\* the connection could not be established
ConnectFail(s) ==
    /\ socks[s] = "connecting"
    /\ closeEvents(s)

\* an established connection was closed (by the peer, or after ws.close()),
\* or a handshake was aborted by ws.close()
Close(s) ==
    /\ socks[s] \in {"open", "closing"}
    /\ closeEvents(s)

\* the setTimeout of attemptReconnect fired: connect()
ReconnectTimer ==
    /\ reconnectTimers > 0
    /\ reconnectTimers' = reconnectTimers - 1
    /\ timerDelay' = IF reconnectTimers' = 0 THEN 0 ELSE timerDelay
    /\ IF isConnecting \/ wsOpen
       THEN UNCHANGED <<ws, isConnecting, socks>>
       ELSE /\ FreeSocks # {}
            /\ LET s == Min(FreeSocks)
               IN /\ ws' = s
                  /\ socks' = [socks EXCEPT ![s] = "connecting"]
            /\ isConnecting' = TRUE
    /\ UNCHANGED <<now, lastNoop, svcVars, dbVars, supVars, clientVars, upSubs, reconnectAttempts>>

\* TradeStreamManager.getConnectionStatus
getConnectionStatus ==
    IF ws = 0 THEN "disconnected"
    ELSE CASE socks[ws] = "connecting" -> "connecting"
           [] socks[ws] = "open" -> "connected"
           [] socks[ws] = "closing" -> "closing"
           [] OTHER -> "closed"

\* the body of GET /streams/health
getStreamHealth ==
    [health |-> "ok",
     activeStreamsCount |-> Cardinality(activeStreams),
     connectionStatus |-> getConnectionStatus]

\* ------------------------------------------------------ trade event ingress
IdleHandlers == {h \in Handlers : handlers[h].pc = "idle"}

\* handleTradeMessage, deadline branch: checkCondition2 fired
DeliverExpired(s, m) ==
    /\ socks[s] = "open"
    /\ m \in upSubs[s]
    /\ streamConfigs[m] # NoCfg
    /\ checkCondition2(now, streamConfigs[m].condition2)
    /\ stopTradeStream(m)
    /\ handlers' = Detach(handlers, {m})
    /\ deadlineFired' = deadlineFired \cup {streamConfigs[m].contractId}
    /\ UNCHANGED <<now, lastNoop, svcVars, contractRows, contractMint, metaVars, is_completed, status,
                   completionWrites, supVars, ws, isConnecting, upSubs,
                   reconnectAttempts, reconnectTimers, timerDelay>>

\* handleTradeMessage, trade branch: signer filter, then
\* processTradeWithContractLogic up to `await this.getSolPrice()`
DeliverTrade(s, m, trader, marketCapSol, newTokenBalance) ==
    /\ socks[s] = "open"
    /\ m \in upSubs[s]
    /\ streamConfigs[m] # NoCfg
    /\ IdleHandlers # {}
    /\ ~checkCondition2(now, streamConfigs[m].condition2)
    /\ shouldProcessTrade(trader, streamConfigs[m].signers)
    /\ handlers' = [handlers EXCEPT ![Min(IdleHandlers)] =
           [pc |-> "price", c |-> streamConfigs[m].contractId,
            attached |-> TRUE, ath |-> 0, trader |-> trader,
            cap |-> marketCapSol, bal |-> newTokenBalance, price |-> 0,
            todo |-> {}, at |-> 0]]
    /\ streamConfigs' = [streamConfigs EXCEPT ![m].allTimeHigh =
                            NewATH(@, marketCapSol)]
    /\ UNCHANGED <<now, lastNoop, svcVars, dbVars, supVars, subscriptions, sockVars>>

\* handleTradeMessage, trade branch: shouldProcessTrade returned false; the
\* frame is logged and dropped before processTradeWithContractLogic
DeliverFiltered(s, m, trader, marketCapSol, newTokenBalance) ==
    /\ socks[s] = "open"
    /\ m \in upSubs[s]
    /\ streamConfigs[m] # NoCfg
    /\ ~checkCondition2(now, streamConfigs[m].condition2)
    /\ ~shouldProcessTrade(trader, streamConfigs[m].signers)
    /\ lastNoop' = [op |-> "filtered", c |-> streamConfigs[m].contractId,
                    trader |-> trader, cap |-> marketCapSol,
                    bal |-> newTokenBalance]
    /\ UNCHANGED <<now, svcVars, dbVars, supVars, clientVars, sockVars>>

\* ----------------------------------------- processTradeWithContractLogic
\* the handler ends (return, or the catch block after a throw)
Finish(h) == handlers' = [handlers EXCEPT ![h] = IdleHandler]

\* getSolPrice returned: the condition1 check (a trader that passed the signer
\* filter is in config.signers, so the test of line 403 is true)
HPrice(h, solPrice) ==
    /\ handlers[h].pc = "price"
    /\ handlers' = [handlers EXCEPT ![h] =
           [@ EXCEPT !.pc = IF Condition1Met(AthOf(h), solPrice,
                                             Condition1Of(handlers[h].c))
                            THEN "c1_list" ELSE "uc_read",
                     !.attached = FALSE, !.ath = 0, !.cap = 0,
                     !.price = solPrice, !.at = now]]
    /\ UNCHANGED <<now, lastNoop, svcVars, dbVars, supVars, streamConfigs, subscriptions, sockVars>>

\* getSolPrice threw: the event is dropped
HPriceFail(h) ==
    /\ handlers[h].pc = "price"
    /\ Finish(h)
    /\ UNCHANGED <<now, lastNoop, svcVars, dbVars, supVars, streamConfigs, subscriptions, sockVars>>

\* a persistence call of the handler threw: the event is dropped
HPersistFail(h) ==
    /\ handlers[h].pc \in {"c1_list", "c1_upd", "write", "uc_read",
                           "brk_write", "brk_list"}
    /\ Finish(h)
    /\ UNCHANGED <<now, lastNoop, svcVars, dbVars, supVars, streamConfigs, subscriptions, sockVars>>

\* completeContractSuccessfully: getUserContractsByContractId, filter InProgress
HC1List(h) ==
    /\ handlers[h].pc = "c1_list"
    /\ LET inProgressUsers == RowsWith(status, handlers[h].c, InProgress)
       IN handlers' = [handlers EXCEPT ![h] =
              [@ EXCEPT !.pc = IF inProgressUsers = {} THEN "mark" ELSE "c1_upd",
                        !.trader = "-", !.bal = 0, !.todo = inProgressUsers]]
    /\ UNCHANGED <<now, lastNoop, svcVars, dbVars, supVars, streamConfigs, subscriptions, sockVars>>

\* completeContractSuccessfully: one updateUserContractStatus of the loop
HC1Update(h, u) ==
    /\ handlers[h].pc = "c1_upd"
    /\ u \in handlers[h].todo
    /\ status' = updateUserContractStatus(status, handlers[h].c, u,
                                          CompletedCondition1)
    /\ handlers' = [handlers EXCEPT ![h] =
           [@ EXCEPT !.pc = IF handlers[h].todo = {u} THEN "mark" ELSE "c1_upd",
                     !.todo = @ \ {u}]]
    /\ UNCHANGED <<now, lastNoop, svcVars, contractRows, contractMint, metaVars, is_completed,
                   completionWrites, deadlineFired, supVars, streamConfigs,
                   subscriptions, sockVars>>

\* ContractService.markContractCompleted, up to `await this.updateContract`
HMark(h) ==
    /\ handlers[h].pc = "mark"
    /\ stopStreamForContract(handlers[h].c)
    /\ handlers' = [Detach(handlers, StoppedMints(handlers[h].c))
                        EXCEPT ![h] = [@ EXCEPT !.pc = "write"]]
    /\ UNCHANGED <<now, lastNoop, svcVars, dbVars, start, ext, ws, isConnecting, upSubs,
                   reconnectAttempts, reconnectTimers, timerDelay>>

\* ContractService.markContractCompleted: updateContract(is_completed: true)
HWrite(h) ==
    /\ handlers[h].pc = "write"
    /\ IF handlers[h].c \in contractRows
       THEN /\ is_completed' = [is_completed EXCEPT ![handlers[h].c] = TRUE]
            /\ CountWrite(handlers[h].c)
            /\ handlers' = [handlers EXCEPT ![h] = [@ EXCEPT !.pc = "stop"]]
       ELSE \* .single() finds no row: updateContract throws
            /\ UNCHANGED <<is_completed, completionWrites>>
            /\ Finish(h)
    /\ UNCHANGED <<now, lastNoop, svcVars, contractRows, contractMint, metaVars, status, deadlineFired,
                   supVars, streamConfigs, subscriptions, sockVars>>

\* this.stopTradeStream(config.mintAddress) that ends both completion paths
HStop(h) ==
    /\ handlers[h].pc = "stop"
    /\ stopTradeStream(contractMint[handlers[h].c])
    /\ handlers' = [Detach(handlers, {contractMint[handlers[h].c]})
                        EXCEPT ![h] = IdleHandler]
    /\ UNCHANGED <<now, lastNoop, svcVars, dbVars, supVars, ws, isConnecting, upSubs,
                   reconnectAttempts, reconnectTimers, timerDelay>>

\* getUserContract returned: the break check
HUcRead(h) ==
    /\ handlers[h].pc = "uc_read"
    /\ LET c == handlers[h].c
           u == handlers[h].trader
       IN handlers' = [handlers EXCEPT ![h] =
              IF /\ status[c][u] = InProgress
                 /\ BalanceBelowSupply(handlers[h].bal, SupplyOf(c, u))
              THEN [@ EXCEPT !.pc = "brk_write", !.bal = 0, !.price = 0]
              ELSE IdleHandler]
    /\ UNCHANGED <<now, lastNoop, svcVars, dbVars, supVars, streamConfigs, subscriptions, sockVars>>

\* updateUserContractStatus(contractId, trader, Broken)
HBreakWrite(h) ==
    /\ handlers[h].pc = "brk_write"
    /\ status' = updateUserContractStatus(status, handlers[h].c,
                                          handlers[h].trader, Broken)
    /\ handlers' = [handlers EXCEPT ![h] =
                       [@ EXCEPT !.pc = "brk_list", !.trader = "-"]]
    /\ UNCHANGED <<now, lastNoop, svcVars, contractRows, contractMint, metaVars, is_completed,
                   completionWrites, deadlineFired, supVars, streamConfigs,
                   subscriptions, sockVars>>

\* checkAllUsersFailed returned
HBreakList(h) ==
    /\ handlers[h].pc = "brk_list"
    /\ handlers' = [handlers EXCEPT ![h] =
           IF checkAllUsersFailed(status, handlers[h].c)
           THEN [@ EXCEPT !.pc = "mark"]
           ELSE IdleHandler]
    /\ UNCHANGED <<now, lastNoop, svcVars, dbVars, supVars, streamConfigs, subscriptions, sockVars>>

\* ------------------------- external command PUT /contracts/:id/complete
\* ContractService.markContractCompleted, up to `await this.updateContract`
ExtMark(c) ==
    /\ ext[c] = "idle"
    /\ c \in contractRows
    /\ stopStreamForContract(c)
    /\ ext' = [ext EXCEPT ![c] = "write"]
    /\ handlers' = Detach(handlers, StoppedMints(c))
    /\ UNCHANGED <<now, lastNoop, svcVars, dbVars, start, ws, isConnecting, upSubs,
                   reconnectAttempts, reconnectTimers, timerDelay>>

\* ContractService.markContractCompleted: updateContract(is_completed: true)
ExtWrite(c) ==
    /\ ext[c] = "write"
    /\ is_completed' = [is_completed EXCEPT ![c] = TRUE]
    /\ CountWrite(c)
    /\ ext' = [ext EXCEPT ![c] = "idle"]
    /\ UNCHANGED <<now, lastNoop, svcVars, contractRows, contractMint, metaVars, status, deadlineFired,
                   activeStreams, start, clientVars, sockVars>>

\* ------------------------------------- POST /contracts/:id/sign
\* ContractService.signContract: a user without a row signs a pending,
\* unexpired contract; createUserContract inserts the row as InProgress
SignContract(c, u) ==
    /\ c \in contractRows
    /\ ~is_completed[c]
    /\ ~(now > Condition2Of(c))
    /\ status[c][u] = NoRow
    /\ status' = [status EXCEPT ![c][u] = InProgress]
    /\ UNCHANGED <<now, lastNoop, svcVars, contractRows, contractMint, metaVars, is_completed,
                   completionWrites, deadlineFired, supVars, clientVars,
                   sockVars>>

\* signContract as the steps between its awaits.  A request arrives:
SignStart(r, c, u) ==
    /\ signs[r].pc = "idle"
    /\ signs' = [signs EXCEPT ![r] = [pc |-> "get_contract", c |-> c, u |-> u]]
    /\ UNCHANGED <<now, lastNoop, userScores, lastResult, scoreCalls, dbVars, supVars,
                   clientVars, sockVars>>

\* getContractById returned: steps 1 to 3, then getUserContract is called
SignGetContract(r) ==
    /\ signs[r].pc = "get_contract"
    /\ LET c == signs[r].c
       IN signs' = [signs EXCEPT ![r].pc =
              IF c \notin contractRows THEN "not_found"
              ELSE IF is_completed[c] THEN "completed"
              ELSE IF now > Condition2Of(c) THEN "expired"
              ELSE "get_uc"]
    /\ UNCHANGED <<now, lastNoop, userScores, lastResult, scoreCalls, dbVars, supVars,
                   clientVars, sockVars>>

\* getUserContract returned: step 4, then the user lookup and
\* checkUserTokenBalance are called
SignGetUc(r) ==
    /\ signs[r].pc = "get_uc"
    /\ signs' = [signs EXCEPT ![r].pc =
           IF status[signs[r].c][signs[r].u] # NoRow THEN "already_signed"
           ELSE "balance"]
    /\ UNCHANGED <<now, lastNoop, userScores, lastResult, scoreCalls, dbVars, supVars,
                   clientVars, sockVars>>

\* checkUserTokenBalance returned: step 6, then createUserContract is called
SignBalance(r, hasEnoughBalance) ==
    /\ signs[r].pc = "balance"
    /\ signs' = [signs EXCEPT ![r].pc =
           IF hasEnoughBalance THEN "insert" ELSE "insufficient"]
    /\ UNCHANGED <<now, lastNoop, userScores, lastResult, scoreCalls, dbVars, supVars,
                   clientVars, sockVars>>

\* the insert into user_contract is refused: the table is keyed by
\* (contract_id, user_address)
DuplicateKey(st, c, u) == st[c][u] # NoRow

\* UserContractService.createUserContract: throws when the insert returned an
\* error
createUserContractIgnoresError(error) == "signed"
createUserContract(error) == IF error THEN "insert_failed" ELSE "signed"

\* the insert returned: step 7
SignInsert(r) ==
    /\ signs[r].pc = "insert"
    /\ LET c == signs[r].c
           u == signs[r].u
           error == DuplicateKey(status, c, u)
       IN /\ signs' = [signs EXCEPT ![r].pc = createUserContract(error)]
          /\ status' = IF error THEN status
                        ELSE [status EXCEPT ![c][u] = InProgress]
    /\ UNCHANGED <<now, lastNoop, userScores, lastResult, scoreCalls, contractRows,
                   contractMint, metaVars, is_completed, completionWrites, deadlineFired,
                   supVars, clientVars, sockVars>>

\* ------------------------------------------------- ContractScoringService
\* SCORING_CONFIG.  Token amounts are in millions of tokens, scores in units
\* of 1/ScoreUnit point and instants in units of 1/TicksPerDay day, so that
\* every product of the scoring formulas is an integer.
MAX_BUY_AMOUNT_FOR_BONUS == 30
PENALTY_MULTIPLIER == 2
BASE_SCORE_MULTIPLIER == 3
CONDITION2_MIN_SCORE == 0
CONDITION2_WEEK_SCORE == 1
CONDITION2_MAX_SCORE == 25
CONDITION2_WEEK_THRESHOLD_DAYS == 7
CONDITION2_MAX_THRESHOLD_DAYS == 180
msInDay == 2
ScoreUnit ==
    100 * (CONDITION2_MAX_THRESHOLD_DAYS - CONDITION2_WEEK_THRESHOLD_DAYS)

Max2(a, b) == IF a >= b THEN a ELSE b
Min2(a, b) == IF a <= b THEN a ELSE b

\* Math.min(Math.max(0, event.buyAmount || 0), MAX_BUY_AMOUNT_FOR_BONUS)
cappedNoFloor(buyAmount) == Min2(buyAmount, MAX_BUY_AMOUNT_FOR_BONUS)
capped(buyAmount) == Min2(Max2(0, buyAmount), MAX_BUY_AMOUNT_FOR_BONUS)

\* processContractEvent, normal path: signedDelta
signedDelta(event) ==
    LET baseBuyScore == capped(event.buyAmount) * BASE_SCORE_MULTIPLIER
        \* diffMultiplier, in hundredths
        diffMultiplier == 100 + event.diffWithCondition
        unsignedScore == baseBuyScore * diffMultiplier * (ScoreUnit \div 100)
        isPenalty == ~event.contractRespected
    IN IF isPenalty THEN (0 - PENALTY_MULTIPLIER) * unsignedScore
       ELSE unsignedScore

\* calculateCondition2Score: ageDays
ageDays(t, signedAt) == Max2(0, (t - signedAt) \div msInDay)

\* calculateCondition2Score(signedAt), t being the clock it reads
calculateCondition2ScoreLateWeek(t, signedAt) ==
    LET wk == CONDITION2_WEEK_THRESHOLD_DAYS
        max == CONDITION2_MAX_THRESHOLD_DAYS
    IN IF signedAt = NoDate THEN CONDITION2_MIN_SCORE * ScoreUnit
       ELSE IF ageDays(t, signedAt) <= wk THEN CONDITION2_MIN_SCORE * ScoreUnit
       ELSE IF ageDays(t, signedAt) >= max THEN CONDITION2_MAX_SCORE * ScoreUnit
       ELSE CONDITION2_WEEK_SCORE * ScoreUnit
            + (ageDays(t, signedAt) - wk)
              * (CONDITION2_MAX_SCORE - CONDITION2_WEEK_SCORE)
              * (ScoreUnit \div (max - wk))
calculateCondition2Score(t, signedAt) ==
    LET wk == CONDITION2_WEEK_THRESHOLD_DAYS
        max == CONDITION2_MAX_THRESHOLD_DAYS
    IN IF signedAt = NoDate THEN CONDITION2_MIN_SCORE * ScoreUnit
       ELSE IF ageDays(t, signedAt) < wk THEN CONDITION2_MIN_SCORE * ScoreUnit
       ELSE IF ageDays(t, signedAt) = wk THEN CONDITION2_WEEK_SCORE * ScoreUnit
       ELSE IF ageDays(t, signedAt) >= max THEN CONDITION2_MAX_SCORE * ScoreUnit
       ELSE CONDITION2_WEEK_SCORE * ScoreUnit
            + (ageDays(t, signedAt) - wk)
              * (CONDITION2_MAX_SCORE - CONDITION2_WEEK_SCORE)
              * (ScoreUnit \div (max - wk))

\* processContractEvent: newRaw
newRaw(prevRaw, rawChange) == prevRaw + rawChange

RECURSIVE SumCalls(_, _)
SumCalls(f, S) ==
    IF S = {} THEN 0
    ELSE LET u == CHOOSE x \in S : TRUE IN f[u] + SumCalls(f, S \ {u})

\* processContractEvent: scoreChange, the raw delta of the event
scoreChange(event, t) ==
    IF event.trueCondition = 2
    THEN calculateCondition2Score(t, event.signed_at)
    ELSE signedDelta(event)

\* processContractEvent(event); t is the clock calculateCondition2Score reads
processContractEvent(event, t) ==
    /\ SumCalls(scoreCalls, Users) < MaxCalls
    /\ LET prevRaw == userScores[event.userId]
           rawChange == scoreChange(event, t)
       IN /\ userScores' = [userScores EXCEPT ![event.userId] =
                                newRaw(prevRaw, rawChange)]
          /\ lastResult' = [userId |-> event.userId,
                            previousScore |-> prevRaw,
                            scoreChange |-> rawChange,
                            condition2Applied |-> event.trueCondition = 2,
                            event |-> event,
                            at |-> IF event.trueCondition = 2 THEN t ELSE 0]
    /\ scoreCalls' = [scoreCalls EXCEPT ![event.userId] = @ + 1]
    /\ UNCHANGED <<now, lastNoop, signs, dbVars, supVars, clientVars, sockVars>>

\* setUserRawScore(userId, rawScore)
setUserRawScore(userId, rawScore) ==
    /\ userScores' = [userScores EXCEPT ![userId] = rawScore]
    /\ UNCHANGED <<now, lastNoop, signs, lastResult, scoreCalls, dbVars,
                   supVars, clientVars, sockVars>>

\* ------------------------------------------------------------ specification
Trades ==
    \E s \in SockIds, m \in Mints, t \in Traders, mc \in MarketCaps,
       b \in Balances : DeliverTrade(s, m, t, mc, b)

Filtered ==
    \E s \in SockIds, m \in Mints, t \in Traders, mc \in MarketCaps,
       b \in Balances : DeliverFiltered(s, m, t, mc, b)

Signing == \E c \in contractRows, u \in Users : SignContract(c, u)

Expiry ==
    \E s \in SockIds, m \in Mints : DeliverExpired(s, m)

Evaluator ==
    \E h \in Handlers :
        \/ \E p \in Prices : HPrice(h, p)
        \/ HC1List(h)
        \/ \E u \in Users : HC1Update(h, u)
        \/ HMark(h)
        \/ HWrite(h)
        \/ HStop(h)
        \/ HUcRead(h)
        \/ HBreakWrite(h)
        \/ HBreakList(h)

Failures ==
    \E h \in Handlers : HPriceFail(h) \/ HPersistFail(h)

StartSteps ==
    \E c \in contractRows : StartGetContract(c) \/ StartTradeStream(c)

Commands ==
    \/ \E c \in contractRows : StartStream(c) \/ StopStream(c)
    \/ StartSteps

External ==
    \E c \in contractRows : ExtMark(c) \/ ExtWrite(c)

Opened == \E s \in SockIds : Open(s)

Disconnects ==
    \/ \E s \in SockIds : Close(s)
    \/ ReconnectTimer

ConnectFailures ==
    \/ \E s \in SockIds : ConnectFail(s)
    \/ \E c \in contractRows : RetryTimer(c)

\* Spec: the evaluator of one contract under concurrent trade events, operator
\* commands and the external mark-completed command, before the deadline
Next == Commands \/ External \/ Opened \/ Trades \/ Evaluator

Spec == Init /\ [][Next]_vars

\* SpecSup: the supervisor and the feed client with two contracts, under
\* start, stop, disconnects, reconnects and failed connections
NextSup == Commands \/ Opened \/ Disconnects \/ ConnectFailures

SpecSup == InitTwo /\ [][NextSup]_vars

\* SpecDeadline: the clock and the deadline check at event ingress
NextDeadline == Tick \/ Commands \/ Opened \/ Disconnects \/ Expiry

SpecDeadline == Init /\ [][NextDeadline]_vars

\* no trade event is ever delivered: time, commands and the connection run
NextQuiet == Tick \/ Commands \/ Opened \/ Disconnects

SpecQuiet == Init /\ [][NextQuiet]_vars

\* FairQuiet: time passes, and the continuations of a start and the
\* connection's open event are eventually run
FairQuiet ==
    /\ SpecQuiet
    /\ WF_vars(Tick)
    /\ WF_vars(StartSteps)
    /\ WF_vars(Opened)

\* SpecStart: starts of two contracts, one of which may have no signer, while
\* the clock passes the deadline and the external command completes contracts
InitStart ==
    /\ InitRest
    /\ status \in {[c \in Contracts |-> [u \in Users |->
                       IF c = 2 /\ u = "B" THEN NoRow ELSE InProgress]],
                   [c \in Contracts |-> [u \in Users |->
                       IF c = 2 THEN NoRow ELSE InProgress]]}
    /\ contractRows = Contracts
    /\ contractMint = [c \in Contracts |-> IF c = 1 THEN "M1" ELSE "M2"]

StartFailures == \E c \in contractRows : StartFail(c)

NextStart == Tick \/ Commands \/ External \/ Opened \/ ConnectFailures

SpecStart == InitStart /\ [][NextStart]_vars

\* SpecRetry: starts of one contract that fail, in a persistence call or in
\* the connection, and are retried
NextRetry == Commands \/ Opened \/ ConnectFailures \/ StartFailures

SpecRetry == Init /\ [][NextRetry]_vars

\* SpecStop: start and stop commands for one contract under disconnects and
\* reconnects, the stops that find no registry entry included
StopNoops == \E c \in contractRows : StopNoop(c)

NextStop == Commands \/ StopNoops \/ Opened \/ Disconnects

SpecStop == Init /\ [][NextStop]_vars

\* SpecAll: start_all_pending for two contracts while the clock runs; the
\* upstream accepts the connection
StartAllTimers == \E c \in contractRows : StartAllTimer(c)

NextAll == Tick \/ StartAll \/ StartAllTimers \/ StartSteps \/ Opened

SpecAll == InitStart /\ [][NextAll]_vars

\* FairAll: every timer fires, every start runs its continuations, and the
\* connection's open event arrives; the clock need not advance
FairAll ==
    /\ SpecAll
    /\ \A c \in Contracts : WF_vars(StartAllTimer(c))
    /\ \A c \in Contracts : WF_vars(StartGetContract(c) \/ StartTradeStream(c))
    /\ WF_vars(Opened)

\* SpecFilter: the signer filter at event ingress.  Contract 2 is signed by A
\* when its stream starts and by B later; frames of signers and of a
\* non-signer (X) arrive; the handlers of the accepted frames stay suspended
\* on the price call
InitSign ==
    /\ InitState
    /\ contractRows = {2}
    /\ contractMint = [c \in Contracts |-> "M1"]

NextFilter ==
    \/ \E c \in contractRows : StartStream(c)
    \/ StartSteps
    \/ Opened
    \/ Signing
    \/ Trades
    \/ Filtered

SpecFilter == InitSign /\ [][NextFilter]_vars

TypeOK ==
    /\ now \in 0..MaxTime
    /\ completion_reason \in
           [Contracts -> {"unset", "market_cap", "time_expired", "manual"}]
    /\ completed_at \in [Contracts -> {NoDate} \cup (0..MaxTime)]
    /\ activeStreams \subseteq Contracts
    /\ subscriptions \subseteq Mints
    /\ ws \in SockIds \cup {0}
    /\ reconnectAttempts \in 0..maxReconnectAttempts
    /\ reconnectTimers \in 0..MaxTimers
    /\ timerDelay \in {0} \cup {delay(n) : n \in 1..maxReconnectAttempts}


\* ==================================================================== claims
MintOfHandler(h) == contractMint[handlers[h].c]
Moved(h, from, to) == handlers[h].pc = from /\ handlers'[h].pc = to
\* the handler is on the condition-1 completion path (it holds the price with
\* which ath * price reached condition1)
OnC1Path(h) == handlers[h].pc \in {"c1_list", "c1_upd", "mark", "write", "stop"}
                  /\ handlers[h].price # 0

\* C1 Terminal stickiness: once is_completed of a contract is true, no step
\* writes the contract row (a completion write) or changes one of its
\* user_contract rows.
C1_TerminalStickiness ==
    [][\A c \in Contracts :
          is_completed[c] =>
              /\ status'[c] = status[c]
              /\ completionWrites'[c] = completionWrites[c]]_vars

\* C2 Unique status exit: a user_contract that has left InProgress never
\* changes its status again.
C2_UniqueStatusExit ==
    [][\A c \in Contracts, u \in Users :
          status[c][u] \in {CompletedCondition1, CompletedCondition2, Broken}
              => status'[c][u] = status[c][u]]_vars

\* C3 Monotone ATH: a stream starts with allTimeHigh 0; while it is in the
\* feed client its allTimeHigh never decreases and only changes to a strictly
\* larger marketCapSol of a trade; it is 0 again only when startTradeStream
\* replaces the stream by a new one.
C3_MonotoneATH ==
    [][\A m \in Mints :
          LET old == streamConfigs[m]
              new == streamConfigs'[m]
              restarted == \E c \in Contracts : /\ contractMint[c] = m
                                                /\ start[c].pc = "get_ucs"
                                                /\ start'[c].pc # "get_ucs"
          IN /\ (old = NoCfg /\ new # NoCfg) => new.allTimeHigh = 0
             /\ (old # NoCfg /\ new # NoCfg) =>
                   \/ new.allTimeHigh = old.allTimeHigh
                   \/ /\ new.allTimeHigh > old.allTimeHigh
                      /\ new.allTimeHigh \in MarketCaps
                      /\ new.contractId = old.contractId
                   \/ restarted /\ new.allTimeHigh = 0]_vars

\* a trade below the stream's all-time high is being processed
C3_Witness ==
    \E h \in Handlers :
        /\ handlers[h].pc = "price"
        /\ handlers[h].attached
        /\ handlers[h].cap < streamConfigs[MintOfHandler(h)].allTimeHigh

\* C4 Single-stream invariant: no two stream configurations of the feed client
\* carry the same contract id (the registry is keyed by contract id).
C4_SingleStream ==
    \A m1 \in Mints, m2 \in Mints :
        (m1 # m2 /\ streamConfigs[m1] # NoCfg /\ streamConfigs[m2] # NoCfg)
            => streamConfigs[m1].contractId # streamConfigs[m2].contractId

\* two contracts are streamed at once, after a reconnect
C4_Witness ==
    /\ activeStreams = Contracts
    /\ \A c \in Contracts : streamConfigs[contractMint[c]].contractId = c
    /\ contractMint[1] # contractMint[2]
    /\ reconnectTimers = 0 /\ wsOpen

\* C5 Subscription reconciliation: when a connection opens after a disconnect
\* (a reconnect attempt is counted), the mints subscribed upstream are the
\* mints of the streams in the supervisor's registry.
C5_Reconciliation ==
    [][\A s \in SockIds :
          (socks[s] = "connecting" /\ socks'[s] = "open" /\ reconnectAttempts > 0)
              => upSubs'[s] = {contractMint[c] : c \in activeStreams'}]_vars

\* C6 No duplicate completion: at most one completion write per contract.
C6_SingleCompletion ==
    \A c \in Contracts : completionWrites[c] <= 1

\* C7 Condition-1 transition, step by step of the handler: after the price
\* arrives the handler completes the contract iff ath * price >= condition1;
\* it then writes CompletedCondition1 to exactly the rows it read as
\* InProgress (no other row changes), removes the stream from the registry,
\* writes is_completed and removes the stream from the feed client, leaving no
\* row of the contract InProgress.
C7_Condition1Transition ==
    [][\A h \in Handlers :
          LET c == handlers[h].c
              m == MintOfHandler(h)
          IN /\ (handlers[h].pc = "price" /\ handlers'[h].pc # "price") =>
                    (handlers'[h].pc = "c1_list"
                        <=> AthOf(h) * handlers'[h].price >= Condition1Of(c))
             /\ Moved(h, "c1_list", "c1_upd") =>
                    /\ handlers'[h].todo = RowsWith(status, c, InProgress)
                    /\ status' = status
             /\ Moved(h, "c1_list", "mark") =>
                    /\ RowsWith(status, c, InProgress) = {}
                    /\ status' = status
             /\ (handlers[h].pc = "c1_upd" /\ handlers'[h] # handlers[h]) =>
                    \E u \in handlers[h].todo :
                        /\ status' = [status EXCEPT ![c][u] = CompletedCondition1]
                        /\ handlers'[h].todo = handlers[h].todo \ {u}
                        /\ handlers'[h].pc =
                               IF handlers'[h].todo = {} THEN "mark" ELSE "c1_upd"
             /\ (OnC1Path(h) /\ Moved(h, "mark", "write")) =>
                    /\ c \notin activeStreams'
                    /\ c \in activeStreams => streamConfigs'[m] = NoCfg
                    /\ status' = status
             /\ (OnC1Path(h) /\ Moved(h, "write", "stop")) =>
                    /\ is_completed'[c]
                    /\ status' = status
             /\ (OnC1Path(h) /\ Moved(h, "stop", "idle")) =>
                    /\ is_completed'[c]
                    /\ streamConfigs'[m] = NoCfg
                    /\ m \notin subscriptions'
                    /\ RowsWith(status', c, InProgress) = {}
                    /\ status' = status]_vars

\* a condition-1 completion at its last step, with a row it set to
\* CompletedCondition1 and a row that was Broken before
C7_Witness ==
    \E h \in Handlers :
        /\ OnC1Path(h)
        /\ handlers[h].pc = "stop"
        /\ is_completed[handlers[h].c]
        /\ handlers[h].c \notin activeStreams
        /\ RowsWith(status, handlers[h].c, CompletedCondition1) # {}
        /\ RowsWith(status, handlers[h].c, Broken) # {}

\* C8 Deadline check on event ingress: once the deadline check of a trade
\* event has fired for a contract, the contract is completed and none of its
\* user_contracts is InProgress.
C8_DeadlineAtIngress ==
    \A c \in deadlineFired :
        /\ is_completed[c]
        /\ RowsWith(status, c, InProgress) = {}
        /\ c \notin activeStreams

\* C9 Deadline liveness: a registered stream whose deadline has elapsed is
\* eventually completed, with no trade event needed.
C9_DeadlineLiveness ==
    \A c \in Contracts :
        [](c \in activeStreams /\ now >= Condition2Of(c)
              => <>(is_completed[c] /\ RowsWith(status, c, InProgress) = {}))

\* C10 Break check: after reading the signer's row the handler writes Broken
\* iff the row is InProgress and newTokenBalance < supply (strictly), and the
\* write sets that row, and only that row, to Broken.
C10_BreakCheck ==
    [][\A h \in Handlers :
          LET c == handlers[h].c
              u == handlers[h].trader
          IN /\ (handlers[h].pc = "uc_read" /\ handlers'[h] # handlers[h]) =>
                    /\ handlers'[h].pc = "brk_write"
                          <=> /\ status[c][u] = InProgress
                              /\ handlers[h].bal < SupplyOf(c, u)
                    /\ handlers'[h].pc \in {"brk_write", "idle"}
                    /\ status' = status
             /\ (handlers[h].pc = "brk_write" /\ handlers'[h] # handlers[h]) =>
                    status' = [status EXCEPT ![c][u] = Broken]]_vars

\* a signer's trade below the supply was judged and the row written Broken
C10_Witness ==
    \E h \in Handlers :
        /\ handlers[h].pc = "brk_list"
        /\ RowsWith(status, handlers[h].c, Broken) # {}
        /\ RowsWith(status, handlers[h].c, InProgress) # {}

\* the handler is on the all-broken completion path (the break check cleared
\* the price it held)
OnBreakPath(h) == handlers[h].pc \in {"brk_list", "mark", "write", "stop"}
                     /\ handlers[h].price = 0

\* C11 All-broken close, step by step of the handler: after the Broken write
\* the handler completes the contract iff it finds no row of the contract
\* InProgress; it then removes the stream from the registry, writes
\* is_completed and removes the stream from the feed client; if a row is still
\* InProgress it ends and leaves the contract, the registry and the feed
\* client as they are.
C11_AllBrokenClose ==
    [][\A h \in Handlers :
          LET c == handlers[h].c
              m == MintOfHandler(h)
          IN /\ (handlers[h].pc = "brk_list" /\ handlers'[h] # handlers[h]) =>
                    /\ handlers'[h].pc = "mark"
                          <=> RowsWith(status, c, InProgress) = {}
                    /\ handlers'[h].pc \in {"mark", "idle"}
                    /\ <<is_completed, status, activeStreams, streamConfigs,
                         subscriptions>>' =
                       <<is_completed, status, activeStreams, streamConfigs,
                         subscriptions>>
             /\ (OnBreakPath(h) /\ Moved(h, "mark", "write")) =>
                    /\ c \notin activeStreams'
                    /\ c \in activeStreams => streamConfigs'[m] = NoCfg
             /\ (OnBreakPath(h) /\ Moved(h, "write", "stop")) =>
                    is_completed'[c]
             /\ (OnBreakPath(h) /\ Moved(h, "stop", "idle")) =>
                    /\ is_completed'[c]
                    /\ streamConfigs'[m] = NoCfg
                    /\ m \notin subscriptions']_vars

\* the last signer broke: the all-broken completion is at its last step, and
\* before that a break left the other signer InProgress
C11_Witness ==
    \E h \in Handlers :
        /\ OnBreakPath(h)
        /\ handlers[h].pc = "stop"
        /\ is_completed[handlers[h].c]
        /\ handlers[h].c \notin activeStreams
        /\ \A u \in Users : status[handlers[h].c][u] = Broken

\* the signer filter dropped a frame in this step
FrameDropped == lastNoop' # lastNoop /\ lastNoop'.op = "filtered"

\* C12 ATH on every trade: whenever a trade frame of a running stream has been
\* handled, accepted by the signer filter or not, the stream's allTimeHigh is
\* at least the frame's marketCapSol.
C12_AthOnEveryTrade ==
    [][/\ FrameDropped =>
            \A m \in Mints :
                streamConfigs'[m].contractId = lastNoop'.c
                    => streamConfigs'[m].allTimeHigh >= lastNoop'.cap
       /\ \A h \in Handlers :
            Moved(h, "idle", "price") =>
                streamConfigs'[contractMint[handlers'[h].c]].allTimeHigh
                    >= handlers'[h].cap]_vars

\* C13 Every signer is tracked: no frame of a trader who holds an InProgress
\* user_contract of the stream's contract, with newTokenBalance below the
\* supply, is dropped by the signer filter.
C13_EverySignerTracked ==
    [][FrameDropped =>
          ~(/\ lastNoop'.trader \in Users
            /\ status[lastNoop'.c][lastNoop'.trader] = InProgress
            /\ lastNoop'.bal < SupplyOf(lastNoop'.c, lastNoop'.trader))]_vars

\* the start of contract c passes its last check in this step (it returns
\* from getUserContractsByContractId and calls, or refuses to call,
\* start_trades_stream)
StartDecides(c) == start[c].pc = "get_ucs" /\ start'[c].pc # "get_ucs"

\* C14 start is idempotent: a start of a contract that is in the registry
\* leaves the registry, the feed client's stream configurations (the ATH
\* included) and its subscriptions unchanged.
C14_StartIdempotent ==
    [][\A c \in Contracts :
          (c \in activeStreams /\ StartDecides(c)) =>
              /\ activeStreams' = activeStreams
              /\ streamConfigs' = streamConfigs
              /\ subscriptions' = subscriptions]_vars

\* the start of contract c ended in this step without a stream and without a
\* retry: nothing registered, nothing subscribed, no timer
Refused(c) ==
    /\ start'[c] = IdleStart
    /\ activeStreams' = activeStreams
    /\ streamConfigs' = streamConfigs
    /\ subscriptions' = subscriptions
    /\ socks' = socks

\* C15 start refuses: a start that reads the contract as completed, or that
\* finds no user_contract row of the contract, or finds condition2 <= now,
\* ends there: it registers no stream, adds no subscription, opens no
\* connection and schedules no retry.
C15_StartRefuses ==
    [][\A c \in Contracts :
          /\ (start[c].pc = "get_contract" /\ start'[c].pc # "get_contract"
                 /\ is_completed[c]) => Refused(c)
          /\ (StartDecides(c)
                 /\ (\/ \A u \in Users : status[c][u] = NoRow
                     \/ Condition2Of(c) <= now)) => Refused(c)]_vars

\* a start is about to be refused for the deadline and another for the
\* missing signers
C15_Witness ==
    /\ start[1].pc = "get_ucs"
    /\ Condition2Of(1) <= now
    /\ start[2].pc = "get_ucs"
    /\ \A u \in Users : status[2][u] = NoRow
    /\ activeStreams = {}

\* C16 Start retry bound: one invocation of start makes at most maxRetries (5)
\* attempts in total; start[c].retry is the retryCount of the attempt that is
\* running or scheduled, so the attempt is number retry + 1.
C16_RetryBound ==
    \A c \in Contracts :
        start[c].pc # "idle" => start[c].retry + 1 <= maxRetries

\* C17 Subscribe frame on every start: when a start registers a contract and
\* the upstream connection is open, the contract's mint has been subscribed on
\* that connection.
C17_SubscribeOnStart ==
    [][\A c \in Contracts :
          (c \notin activeStreams /\ c \in activeStreams' /\ ws' # 0
              /\ socks'[ws'] = "open")
              => contractMint[c] \in upSubs'[ws']]_vars

\* C18 stop is idempotent and complete: when stop(contract_id) returns (no
\* start of the contract being in flight) the contract is not in the registry,
\* its mint is not in the feed client's subscriptions and the feed client
\* holds no stream configuration for it, so that later frames of the mint
\* reach no evaluator.
C18_StopComplete ==
    [][\A c \in Contracts :
          ((StopStream(c) \/ StopNoop(c)) /\ start[c].pc = "idle") =>
              /\ c \notin activeStreams'
              /\ contractMint[c] \notin subscriptions'
              /\ streamConfigs'[contractMint[c]] = NoCfg]_vars

\* C19 stop then start: every start that is not refused installs for the
\* contract's mint the stream (contractId, signers = the users with a row,
\* condition1, condition2) with allTimeHigh 0, whatever stream was there
\* before; and a frame accepted afterwards is judged against the allTimeHigh
\* of the entry now in the map, raised by its own marketCapSol only.
C19_RestartFresh ==
    [][/\ \A c \in Contracts :
            (StartDecides(c) /\ (\E u \in Users : status[c][u] # NoRow)
                 /\ now < Condition2Of(c)) =>
                /\ streamConfigs'[contractMint[c]] =
                      [contractId |-> c,
                       signers |-> {u \in Users : status[c][u] # NoRow},
                       condition1 |-> Condition1Of(c),
                       condition2 |-> Condition2Of(c),
                       allTimeHigh |-> 0]
                /\ contractMint[c] \in subscriptions'
       /\ \A h \in Handlers :
            Moved(h, "idle", "price") =>
                LET m == contractMint[handlers'[h].c]
                    old == streamConfigs[m].allTimeHigh
                    cap == handlers'[h].cap
                IN /\ handlers'[h].attached
                   /\ streamConfigs'[m].allTimeHigh =
                          IF cap > old THEN cap ELSE old]_vars

\* after a stop (which closed the connection) and a new start on a new
\* connection: a handler of the old stream still holds its all-time high 2, while a frame with marketCapSol 1 of the new stream is
\* judged against all-time high 1
C19_Witness ==
    \E h1 \in Handlers, h2 \in Handlers :
        /\ handlers[h1].pc = "price"
        /\ ~handlers[h1].attached
        /\ handlers[h1].ath = 2
        /\ handlers[h2].pc = "price"
        /\ handlers[h2].attached
        /\ handlers[h2].cap = 1
        /\ streamConfigs[MintOfHandler(h2)].allTimeHigh = 1
        /\ handlers[h2].c \in activeStreams
        /\ wsOpen
        /\ \E s \in SockIds : socks[s] = "closing"
        /\ \A c \in Contracts : ~is_completed[c] /\ ext[c] = "idle"

NextStopAll == Commands \/ StopAll \/ Opened \/ Disconnects

SpecStopAll == InitTwo /\ [][NextStopAll]_vars

\* C21 when stop_all() returns (no start being in flight) no stream is
\* active: the supervisor registry is empty, the feed client holds no
\* subscription and no stream configuration, from every reachable state, the
\* states after an upstream disconnect included.
C21_StopAllComplete ==
    [][(StopAll /\ \A c \in Contracts : start[c].pc = "idle") =>
          /\ activeStreams' = {}
          /\ subscriptions' = {}
          /\ \A m \in Mints : streamConfigs'[m] = NoCfg]_vars

\* the open event of a socket that attemptReconnect's timer created: no start
\* is waiting for it
ReconnectOpen(s) ==
    /\ Open(s)
    /\ \A c \in Contracts : ~(start[c].pc = "connect_wait" /\ start[c].sock = s)

\* the open sockets on which mint m is subscribed upstream; each of them
\* passes every trade frame of m to handleTradeMessage
Delivering(m) == {s \in SockIds : socks[s] = "open" /\ m \in upSubs[s]}

\* C22 on every successful reconnect the client has sent, on the connection
\* that opened, subscribe frames for exactly the mints of its subscription
\* set; and a trade frame of a mint reaches the evaluator once: at most one
\* open connection delivers the mint.
C22_ResubscribeExactly ==
    [][/\ \A s \in SockIds : ReconnectOpen(s) => upSubs'[s] = subscriptions'
       /\ \A m \in Mints : Cardinality(Delivering(m)') <= 1]_vars

\* SpecReconnect: one contract under start and stop commands, disconnects,
\* reconnect timers and connections that fail to open
NextReconnect == Commands \/ Opened \/ Disconnects \/ ConnectFailures

SpecReconnect == Init /\ [][NextReconnect]_vars

\* attemptReconnect is entered with the reconnect attempts used up
Exhausted(s) ==
    /\ Close(s) \/ ConnectFail(s)
    /\ subscriptions # {}
    /\ reconnectAttempts >= maxReconnectAttempts

\* C23 reconnect exhaustion: when a connection closes with max_attempts = 5
\* reconnect attempts used up, the feed client has cleared its subscriptions
\* and is disconnected with no reconnect pending, the supervisor's registry
\* is empty and health does not report ok.
C23_ReconnectExhaustion ==
    [][\A s \in SockIds : Exhausted(s) =>
          /\ subscriptions' = {}
          /\ ws' = 0 /\ reconnectTimers' = 0
          /\ activeStreams' = {}
          /\ getStreamHealth'.health # "ok"]_vars

\* SpecSign: sign requests for contract 2 (signed by A, not by B) while the
\* clock runs
SignSteps ==
    \/ \E r \in SignIds, c \in contractRows, u \in Users : SignStart(r, c, u)
    \/ \E r \in SignIds :
          \/ SignGetContract(r)
          \/ SignGetUc(r)
          \/ \E ok \in BOOLEAN : SignBalance(r, ok)
          \/ SignInsert(r)

NextSign == Tick \/ SignSteps

SpecSign == InitSign /\ [][NextSign]_vars

\* the sign requests for (c, u) that returned success
Signed(c, u) ==
    {r \in SignIds : signs[r].pc = "signed" /\ signs[r].c = c /\ signs[r].u = u}

ClosedByEvaluator(c) ==
    /\ is_completed[c]
    /\ \/ \E u \in Users : status[c][u] = CompletedCondition1
       \/ checkAllUsersFailed(status, c)
    /\ \A h \in Handlers : handlers[h].pc = "idle"
    /\ ext[c] = "idle"

\* C25 scoring at close: once the evaluator has closed a contract, the
\* scoring engine has been applied exactly once for each signer of the
\* contract.
C25_ScoringAtClose ==
    \A c \in Contracts :
        ClosedByEvaluator(c) =>
            \A u \in SignersOf(status, c) : scoreCalls[u] = 1

\* ---------------------------------------------------- the scoring engine
\* inputs of the scoring specifications
BuyAmounts == {-1, 0, 29, 30, 31}
Diffs == {-150, 0, 1000}
RawScores == {0, 1000000}
ClockReadings == {800, 801}
SignedAts ==
    {NoDate} \cup {800 - a : a \in {-2, 13, 14, 15, 200, 359, 360}}

SetScores == \E u \in Users, raw \in RawScores : setUserRawScore(u, raw)

\* SpecScore1: events with trueCondition = 1 for users with any previous score
Condition1Events ==
    [userId : Users, contractRespected : BOOLEAN, buyAmount : BuyAmounts,
     diffWithCondition : Diffs, trueCondition : {1}, signed_at : {NoDate}]

NextScore1 ==
    \/ SetScores
    \/ \E event \in Condition1Events, t \in ClockReadings :
          processContractEvent(event, t)

SpecScore1 == Init /\ [][NextScore1]_vars

\* the step is a call of processContractEvent
Scored == scoreCalls' # scoreCalls

\* C26 condition-1 score delta (amounts in millions of tokens, deltas in
\* 1/17300 point): for trueCondition = 1 the raw delta is
\* min(max(0, buyAmount), cap) * 0.000003 * (1 + diff/100) when the contract
\* was respected and -2 times that when it was broken; a buyAmount at or above
\* the cap gives the delta of the cap, a negative buyAmount gives 0.
C26_Condition1Delta ==
    [][(Scored /\ lastResult'.event.trueCondition = 1) =>
          LET e == lastResult'.event
              value == Min2(Max2(0, e.buyAmount), 30) * 3
                         * (100 + e.diffWithCondition) * (ScoreUnit \div 100)
          IN /\ lastResult'.scoreChange =
                    IF e.contractRespected THEN value ELSE (0 - 2) * value
             /\ e.buyAmount >= 30 =>
                    lastResult'.scoreChange =
                        signedDelta([e EXCEPT !.buyAmount = 30])
             /\ e.buyAmount < 0 => lastResult'.scoreChange = 0]_vars

\* both users have been scored; the last event was a broken contract with a
\* buyAmount above the cap and got a penalty
C26_Witness ==
    /\ scoreCalls["A"] = 1 /\ scoreCalls["B"] = 1
    /\ lastResult.event.trueCondition = 1
    /\ lastResult.event.buyAmount > 30
    /\ ~lastResult.event.contractRespected
    /\ lastResult.scoreChange < 0

\* SpecScore2: events with trueCondition = 2, signed from 1 day in the future
\* to 180 days ago (or without signed_at), processed at two clock readings
Condition2Events ==
    [userId : {"A"}, contractRespected : BOOLEAN, buyAmount : {0, 31},
     diffWithCondition : {0, 1000}, trueCondition : {2}, signed_at : SignedAts]

NextScore2 ==
    \/ SetScores
    \/ \E event \in Condition2Events, t \in ClockReadings :
          processContractEvent(event, t)

SpecScore2 == Init /\ [][NextScore2]_vars

AccumEvents ==
    [userId : Users, contractRespected : BOOLEAN, buyAmount : {1, 31},
     diffWithCondition : {0, 1000}, trueCondition : {1, 2},
     signed_at : {600, 787}]

NextScore ==
    \/ SetScores
    \/ \E event \in AccumEvents, t \in ClockReadings :
          processContractEvent(event, t)

SpecScore == Init /\ [][NextScore]_vars

\* C28 score accumulation: the stored raw score after an event is the
\* previous raw score plus the event's raw delta, without clamping; and an
\* event that is replayed gets the raw delta it got before, whatever the
\* user's raw score has become.
C28_Accumulation ==
    [][Scored =>
          LET u == lastResult'.userId
          IN /\ lastResult'.previousScore = userScores[u]
             /\ userScores'[u] = userScores[u] + lastResult'.scoreChange
             /\ lastResult'.event = lastResult.event =>
                    lastResult'.scoreChange = lastResult.scoreChange]_vars

\* SpecTie: the evaluator of one contract while the clock passes the deadline
NextTie ==
    \/ Tick
    \/ \E c \in contractRows : StartStream(c)
    \/ StartSteps
    \/ Opened
    \/ Trades
    \/ Expiry
    \/ Evaluator

SpecTie == Init /\ [][NextTie]_vars

\* C29 tie-break: a trade event that passed the deadline check at ingress
\* and whose price arrives when condition2 has elapsed completes the contract
\* through condition 1 if ath * price >= condition1: the handler takes the
\* completion path, sets the rows it read as InProgress to
\* CompletedCondition1, writes is_completed, and no row ever becomes
\* CompletedCondition2.
C29_TieBreak ==
    [][\A h \in Handlers :
          LET c == handlers[h].c
              late == checkCondition2(handlers'[h].at, Condition2Of(c))
          IN /\ (handlers[h].pc = "price" /\ handlers'[h].pc # "price"
                    /\ handlers'[h].price # 0
                    /\ checkCondition2(now, Condition2Of(c))
                    /\ AthOf(h) * handlers'[h].price >= Condition1Of(c)) =>
                    handlers'[h].pc = "c1_list"
             /\ (late /\ handlers[h].pc = "c1_upd"
                       /\ handlers'[h] # handlers[h]) =>
                    \E u \in handlers[h].todo :
                        status' = [status EXCEPT ![c][u] = CompletedCondition1]
             /\ (late /\ OnC1Path(h) /\ Moved(h, "write", "stop")) =>
                    is_completed'[c]
             /\ \A d \in Contracts, u \in Users :
                    status'[d][u] # CompletedCondition2]_vars

\* a handler whose price arrived after the deadline has completed the
\* contract through condition 1: no row is InProgress or CompletedCondition2
C29_Witness ==
    \E h \in Handlers :
        /\ OnC1Path(h)
        /\ handlers[h].pc = "stop"
        /\ checkCondition2(handlers[h].at, Condition2Of(handlers[h].c))
        /\ is_completed[handlers[h].c]
        /\ RowsWith(status, handlers[h].c, CompletedCondition1) = Users

\* the handleTradeMessage invocations in flight for mint m
InFlight(m) ==
    {h \in Handlers : handlers[h].pc # "idle" /\ MintOfHandler(h) = m}

\* C30 per-mint serial processing: at most one trade event of a mint is being
\* processed at any time (the processing of an event, its price query and
\* persistence writes included, does not start before the previous event of
\* the mint has finished).
C30_SerialPerMint ==
    \A m \in Mints : Cardinality(InFlight(m)) <= 1

\* contract d is registered and the feed client's entry for its mint is d's
Streamed(d) ==
    /\ d \in activeStreams
    /\ streamConfigs[contractMint[d]].contractId = d

\* C31 the mint-to-stream map is one-to-one within the active set: starting
\* or stopping a contract never replaces or removes the stream of another
\* registered contract, and no two registered contracts share a mint (a
\* trade event of the mint would have to be routed to both).
C31_MintStreamOneToOne ==
    [][/\ \A c \in Contracts, d \in Contracts :
             (c # d /\ Streamed(d) /\ (StartTradeStream(c) \/ StopStream(c)))
                 => streamConfigs'[contractMint[d]].contractId = d
       /\ \A c \in activeStreams', d \in activeStreams' :
             c # d => contractMint[c] # contractMint[d]]_vars

\* the WebSocket objects that are open or connecting
LiveSocks == {s \in SockIds : socks[s] \in {"open", "connecting"}}

\* C32 single upstream connection: at most one WebSocket is open or being
\* opened at any time.
C32_SingleConnection == Cardinality(LiveSocks) <= 1

\* ------------------------------------------------- shutdown of the feed client
\* TradeStreamManager.closeAll: the subscriptions and the configs are cleared
\* and the socket is closed when it is open; no timer is cleared
closeAll ==
    /\ subscriptions' = {}
    /\ streamConfigs' = [m \in Mints |-> NoCfg]
    /\ handlers' = Detach(handlers, Mints)
    /\ socks' = IF wsOpen THEN [socks EXCEPT ![ws] = CloseCalled(@)] ELSE socks
    /\ UNCHANGED <<now, lastNoop, svcVars, dbVars, supVars, ws, isConnecting,
                   upSubs, reconnectAttempts, reconnectTimers, timerDelay>>

\* SpecShutdown: one contract under start, stop, closeAll, disconnects and
\* the reconnect timer
NextShutdown == Commands \/ closeAll \/ Opened \/ Disconnects

SpecShutdown == Init /\ [][NextShutdown]_vars

\* C33 reconnects are cancelled by shutdown: a reconnect timer that fires when
\* the feed client holds no subscription (after closeAll, or after the last
\* subscription has been removed) opens no upstream connection.
C33_ReconnectCancelled ==
    [][(subscriptions = {} /\ reconnectTimers' < reconnectTimers)
           => socks' = socks]_vars

\* C34 reconnect backoff: the step that schedules reconnect attempt n counts
\* the attempt and sets a timer of 1000 ms * 2^(n-1), n in 1..5; the attempt
\* counter never exceeds 5; the open event of a connection resets it to 0.
C34_ReconnectBackoff ==
    [][/\ reconnectAttempts' \in 0..5
       /\ reconnectTimers' > reconnectTimers =>
             /\ reconnectAttempts' = reconnectAttempts + 1
             /\ reconnectAttempts' \in 1..5
             /\ timerDelay' = <<1000, 2000, 4000, 8000, 16000>>[reconnectAttempts']
       /\ (\E s \in SockIds : Open(s)) => reconnectAttempts' = 0]_vars

\* the fifth reconnect attempt is pending, with a delay of 16 s
C34_Witness ==
    /\ reconnectTimers = 1
    /\ reconnectAttempts = 5
    /\ timerDelay = 16000

\* C35 completion metadata: a completed contract has its completion_reason
\* and its completed_at set, written by the step that writes is_completed;
\* the reason is market_cap when the evaluator completes on condition 1 and
\* manual when it completes because every signer is Broken.
C35_CompletionMetadata ==
    [][\A c \in Contracts :
          /\ is_completed'[c] =>
                /\ completion_reason'[c] # "unset"
                /\ completed_at'[c] # NoDate
          /\ (~is_completed[c] /\ is_completed'[c]) =>
                \A h \in Handlers :
                    (handlers[h].c = c /\ Moved(h, "write", "stop")) =>
                        /\ OnC1Path(h) => completion_reason'[c] = "market_cap"
                        /\ OnBreakPath(h) => completion_reason'[c] = "manual"]_vars

\* ------------------------- external command DELETE /contracts/:id
\* ContractService.deleteContract, up to the await of the delete request
ExtDelete(c) ==
    /\ ext[c] = "idle"
    /\ c \in contractRows
    /\ stopStreamForContract(c)
    /\ ext' = [ext EXCEPT ![c] = "delete"]
    /\ handlers' = Detach(handlers, StoppedMints(c))
    /\ UNCHANGED <<now, lastNoop, svcVars, dbVars, start, ws, isConnecting, upSubs,
                   reconnectAttempts, reconnectTimers, timerDelay>>

\* ContractService.deleteContract: the row is deleted
ExtDeleteRow(c) ==
    /\ ext[c] = "delete"
    /\ contractRows' = contractRows \ {c}
    /\ ext' = [ext EXCEPT ![c] = "idle"]
    /\ UNCHANGED <<now, lastNoop, svcVars, contractMint, metaVars, is_completed,
                   status, completionWrites, deadlineFired, activeStreams, start,
                   clientVars, sockVars>>

Deletes == \E c \in Contracts : ExtDelete(c) \/ ExtDeleteRow(c)

\* SpecExternal: the evaluator of one contract under trade events, start and
\* stop, and the external commands that complete or delete the contract
NextExternal == Commands \/ External \/ Deletes \/ Opened \/ Trades \/ Evaluator

SpecExternal == Init /\ [][NextExternal]_vars

NextFail ==
    \/ \E c \in contractRows : StartStream(c)
    \/ StartSteps
    \/ Opened
    \/ Trades
    \/ Evaluator
    \/ Failures

SpecFail == Init /\ [][NextFail]_vars

\* no other invocation works on contract c: no other handler, no start
OnlyHandler(h, c) ==
    /\ \A g \in Handlers \ {h} : handlers[g].pc = "idle"
    /\ start[c].pc = "idle"

\* C37 failure isolation: when the SOL-price query or a persistence call of a
\* handler throws, the handler ends; if it was the only invocation working on
\* its contract and the contract is not completed, the contract's stream is
\* still in the registry and in the feed client, with its subscription, so
\* that later events are processed; no other stream changes.
C37_FailureIsolation ==
    [][\A h \in Handlers :
          LET c == handlers[h].c
              m == MintOfHandler(h)
          IN (HPriceFail(h) \/ HPersistFail(h)) =>
                /\ handlers'[h] = IdleHandler
                /\ (OnlyHandler(h, c) /\ ~is_completed[c]) =>
                      /\ c \in activeStreams'
                      /\ streamConfigs'[m] # NoCfg
                      /\ streamConfigs'[m].contractId = c
                      /\ m \in subscriptions'
                /\ \A n \in Mints \ {m} :
                      /\ streamConfigs'[n] = streamConfigs[n]
                      /\ (n \in subscriptions') = (n \in subscriptions)]_vars

\* no handler is processing an event of contract c
Quiet(c) == \A h \in Handlers : handlers[h].pc = "idle" \/ handlers[h].c # c

\* C38 atomic condition-1 completion: once the processing of the events of a
\* contract has ended, a user_contract of the contract has the status
\* CompletedCondition1 only if the contract is completed.
C38_AtomicCompletion ==
    \A c \in Contracts :
        (Quiet(c) /\ \E u \in Users : status[c][u] = CompletedCondition1)
            => is_completed[c]

\* SpecExpiry: start and stop of two contracts with different mints while the
\* clock runs and frames arrive after the deadline; the connection stays up
NextExpiry == Tick \/ Commands \/ Opened \/ Expiry

SpecExpiry == InitStart /\ [][NextExpiry]_vars

\* no start, no external command and no handler is in flight
Quiescent ==
    /\ \A c \in Contracts : start[c].pc = "idle" /\ ext[c] = "idle"
    /\ \A h \in Handlers : handlers[h].pc = "idle"

\* StreamManagerService.isStreamActive
isStreamActive(c) == c \in activeStreams

\* C39 registry and feed client agree: in every quiescent state a contract
\* is reported active by the supervisor iff the feed client holds a stream
\* configuration for its mint with that contract id - also after the
\* evaluator has stopped the stream on a frame that arrived after the deadline.
C39_RegistryAgreesWithClient ==
    Quiescent =>
        \A c \in Contracts :
            isStreamActive(c) <=>
                /\ streamConfigs[contractMint[c]] # NoCfg
                /\ streamConfigs[contractMint[c]].contractId = c

\* ------------------------------------- a stop while a start retry is pending
\* startStreamForContract invoked when no stop has found the registry empty
StartUnstopped(c) ==
    /\ lastNoop = NoNoop
    /\ StartStream(c)

\* stopStreamForContract invoked while the retry timer of a start is pending:
\* the registry has no entry, it returns false
StopPendingRetry(c) ==
    /\ start[c].pc = "retry_wait"
    /\ StopNoop(c)

\* SpecCancel: starts of one contract that fail and are retried; the operator
\* stops the contract while a retry is pending and invokes no start after it
NextCancel ==
    \/ \E c \in contractRows : StartUnstopped(c) \/ StopStream(c) \/ StopPendingRetry(c)
    \/ StartSteps
    \/ Opened
    \/ ConnectFailures
    \/ StartFailures

SpecCancel == Init /\ [][NextCancel]_vars

\* C40 stop cancels pending start retries: once stop(c) has returned while a
\* start retry of c was pending, and no start is invoked after it, the
\* contract's stream is not active.
C40_StopCancelsRetry ==
    \A c \in Contracts :
        (lastNoop.op = "stop" /\ lastNoop.c = c) => ~isStreamActive(c)

====
